---- MODULE Spec2Model ----
(***************************************************************************)
(* The control system of the smart garden (src/app/control.py): the relay *)
(* pins, the pump timer, the typed settings lookup it reads its thresholds *)
(* with (src/app/routes.py), and the life cycle of ControlSystem.run.      *)
(*                                                                         *)
(* Numbers are integers: seconds for time.time(), whole units for sensor   *)
(* averages and thresholds. Python's None is the value None below, which   *)
(* is smaller than every number the model uses. Strings are sequences of   *)
(* one-character strings, compared as Python compares str (by code point). *)
(***************************************************************************)
EXTENDS Integers, Sequences, FiniteSets, TLC

\* self.pump_start_time = None; a NULL average of an empty window
None == -1

Channels == {"light", "fan", "pump"}

\* GPIO.LOW / GPIO.HIGH as driven output levels; "IN" is a pin that
\* GPIO.cleanup() has released (set back to an input, no longer driven).
LOW == "LOW"
HIGH == "HIGH"
RELEASED == "IN"
PinStates == {LOW, HIGH, RELEASED}

\* GPIO.input(pin): 1 (truthy) iff the pin is driven HIGH
GPIO_input(pins, ch) == pins[ch] = HIGH

\* Mutant of GPIO_output: the write is lost and the pin keeps its level
GPIO_output_lost(pins, ch, on) == pins

\* Mutant of GPIO_output: the levels are swapped, HIGH for off and LOW for on
GPIO_output_inverted(pins, ch, on) == [pins EXCEPT ![ch] = IF on THEN LOW ELSE HIGH]

\* GPIO.output(pin, GPIO.HIGH if on else GPIO.LOW)
GPIO_output(pins, ch, on) == [pins EXCEPT ![ch] = IF on THEN HIGH ELSE LOW]

\* GPIO.cleanup(): every channel this process set up goes back to an input
GPIO_cleanup(pins) == [ch \in Channels |-> RELEASED]

(***************************************************************************)
(* Strings and the typed settings lookup                                   *)
(***************************************************************************)
Digits == <<"0", "1", "2", "3", "4", "5", "6", "7", "8", "9">>

\* ord(c) for the characters the stored settings are made of
Ord(c) ==
  CASE c = "." -> 46
    [] c = "0" -> 48 [] c = "1" -> 49 [] c = "2" -> 50 [] c = "3" -> 51
    [] c = "4" -> 52 [] c = "5" -> 53 [] c = "6" -> 54 [] c = "7" -> 55
    [] c = "8" -> 56 [] c = "9" -> 57
    [] c = ":" -> 58
    [] c = "A" -> 65 [] c = "E" -> 69 [] c = "F" -> 70 [] c = "L" -> 76
    [] c = "R" -> 82 [] c = "S" -> 83 [] c = "T" -> 84 [] c = "U" -> 85
    [] c = "a" -> 97 [] c = "e" -> 101 [] c = "f" -> 102 [] c = "l" -> 108
    [] c = "n" -> 110 [] c = "o" -> 111
    [] c = "r" -> 114 [] c = "s" -> 115 [] c = "t" -> 116 [] c = "u" -> 117

IsDigit(c) == Ord(c) >= 48 /\ Ord(c) <= 57

\* Python's str <= str: lexicographic by code point, a proper prefix is smaller
RECURSIVE StrLeq(_, _)
StrLeq(a, b) ==
  IF a = <<>> THEN TRUE
  ELSE IF b = <<>> THEN FALSE
  ELSE IF Ord(Head(a)) < Ord(Head(b)) THEN TRUE
  ELSE IF Ord(Head(a)) > Ord(Head(b)) THEN FALSE
  ELSE StrLeq(Tail(a), Tail(b))

\* str.lower() on the letters above
LowerChar(c) ==
  CASE c = "A" -> "a" [] c = "E" -> "e" [] c = "F" -> "f" [] c = "L" -> "l"
    [] c = "R" -> "r" [] c = "S" -> "s" [] c = "T" -> "t" [] c = "U" -> "u"
    [] OTHER -> c

Lower(s) == [i \in 1..Len(s) |-> LowerChar(s[i])]

RECURSIVE DigitsVal(_)
DigitsVal(s) == IF s = <<>> THEN 0 ELSE 10 * DigitsVal(SubSeq(s, 1, Len(s) - 1)) + (Ord(s[Len(s)]) - 48)

AllDigits(s) == Len(s) > 0 /\ \A i \in 1..Len(s) : IsDigit(s[i])

DotAt(s) == IF \E i \in 1..Len(s) : s[i] = "." THEN CHOOSE i \in 1..Len(s) : s[i] = "." /\ \A j \in 1..(i - 1) : s[j] # "." ELSE 0

\* float(s) succeeds: digits, optionally followed by "." and digits
ParsesAsFloat(s) ==
  IF DotAt(s) = 0 THEN AllDigits(s)
  ELSE AllDigits(SubSeq(s, 1, DotAt(s) - 1)) /\ AllDigits(SubSeq(s, DotAt(s) + 1, Len(s)))

\* float(s) of such a string; the stored numbers of the model have a zero
\* fraction ("30.0"), so the value is the integer part
FloatOf(s) == IF DotAt(s) = 0 THEN DigitsVal(s) ELSE DigitsVal(SubSeq(s, 1, DotAt(s) - 1))

\* The values get_system_setting can return, tagged by their Python type
Num(n) == [t |-> "float", n |-> n, s |-> <<>>]
Bool(b) == [t |-> "bool", n |-> IF b THEN 1 ELSE 0, s |-> <<>>]
Str(s) == [t |-> "str", n |-> 0, s |-> s]

\* A settings table without a row for (setting_type, key) holds Absent there
Absent == <<"absent">>

SettingKeys ==
  {<<"moisture", "min">>, <<"moisture", "pump_duration">>,
   <<"temperature", "max">>, <<"humidity", "max">>, <<"co2", "max">>,
   <<"light", "on_time">>, <<"light", "off_time">>}

\* Mutant of get_system_setting: "true" and "false" are matched as they are
\* stored, without lower()
get_system_setting_exact(store, setting_type, key, default) ==
  LET value == store[<<setting_type, key>>] IN
  IF value = Absent THEN default
  ELSE IF ParsesAsFloat(value) THEN Num(FloatOf(value))
  ELSE IF value \in {<<"t", "r", "u", "e">>, <<"f", "a", "l", "s", "e">>}
       THEN Bool(value = <<"t", "r", "u", "e">>)
  ELSE Str(value)

\* routes.get_system_setting(setting_type, key, default)
get_system_setting(store, setting_type, key, default) ==
  LET value == store[<<setting_type, key>>] IN
  IF value = Absent THEN default
  ELSE IF ParsesAsFloat(value) THEN Num(FloatOf(value))
  ELSE IF Lower(value) \in {<<"t", "r", "u", "e">>, <<"f", "a", "l", "s", "e">>}
       THEN Bool(Lower(value) = <<"t", "r", "u", "e">>)
  ELSE Str(value)

\* float(x) of a value get_system_setting returned: a str that is no number
\* raises ValueError (modelled as None, a string is never stored for a threshold)
float(x) == IF x.t = "str" THEN (IF ParsesAsFloat(x.s) THEN FloatOf(x.s) ELSE None) ELSE x.n

\* str(value) of a FloatField's value, as save_system_setting stores it
RECURSIVE NatStr(_)
NatStr(n) == IF n < 10 THEN <<Digits[n + 1]>> ELSE Append(NatStr(n \div 10), Digits[(n % 10) + 1])

FloatStr(n) == NatStr(n) \o <<".", "0">>

\* Mutant of HHMM: the hour is written without its leading zero
HHMM_unpadded(m) ==
  (IF m \div 60 < 10 THEN <<Digits[(m \div 60) + 1]>>
   ELSE <<Digits[((m \div 60) \div 10) + 1], Digits[((m \div 60) % 10) + 1]>>)
    \o <<":", Digits[((m % 60) \div 10) + 1], Digits[((m % 60) % 10) + 1]>>

\* time.strftime('%H:%M') of a minute of the day
HHMM(m) ==
  <<Digits[((m \div 60) \div 10) + 1], Digits[((m \div 60) % 10) + 1], ":",
    Digits[((m % 60) \div 10) + 1], Digits[((m % 60) % 10) + 1]>>

(***************************************************************************)
(* The decision functions of ControlSystem                                 *)
(***************************************************************************)
\* The row get_average_readings returns: AVG over the window of each column,
\* None (SQL NULL) for a column with no non-NULL value in the window
Row(temp, humidity, co2, moisture) ==
  [avg_temp |-> temp, avg_humidity |-> humidity, avg_co2 |-> co2, avg_moisture |-> moisture]

\* bool(avg_readings): the query's .first() is a row of four columns, and a
\* row is truthy as a non-empty tuple is
RowIsTruthy(avg_readings) == Cardinality(DOMAIN avg_readings) > 0

\* Mutant of should_pump_be_on: the timer expires only when elapsed_time
\* exceeds pump_duration (> for >=)
should_pump_be_on_late(avg_readings, pins, start_time, current_time, store) ==
  LET moisture_min == float(get_system_setting(store, "moisture", "min", Num(30)))
      pump_duration == float(get_system_setting(store, "moisture", "pump_duration", Num(60)))
      pump_is_running == GPIO_input(pins, "pump")
      elapsed_time == current_time - start_time
  IN
  IF ~RowIsTruthy(avg_readings) \/ avg_readings.avg_moisture = None
    THEN [ret |-> FALSE, pump_start_time |-> start_time, branch |-> "no_moisture"]
  ELSE IF pump_is_running
    THEN IF start_time = None
           THEN [ret |-> FALSE, pump_start_time |-> start_time, branch |-> "desync"]
         ELSE IF elapsed_time > pump_duration
           THEN [ret |-> FALSE, pump_start_time |-> None, branch |-> "expired"]
         ELSE [ret |-> TRUE, pump_start_time |-> start_time, branch |-> "running"]
  ELSE IF avg_readings.avg_moisture < moisture_min
    THEN [ret |-> TRUE, pump_start_time |-> current_time, branch |-> "start"]
  ELSE [ret |-> FALSE, pump_start_time |-> start_time, branch |-> "idle"]

\* Mutant of should_pump_be_on: the expired timer stops the pump without
\* clearing pump_start_time
should_pump_be_on_stale(avg_readings, pins, start_time, current_time, store) ==
  LET moisture_min == float(get_system_setting(store, "moisture", "min", Num(30)))
      pump_duration == float(get_system_setting(store, "moisture", "pump_duration", Num(60)))
      pump_is_running == GPIO_input(pins, "pump")
      elapsed_time == current_time - start_time
  IN
  IF ~RowIsTruthy(avg_readings) \/ avg_readings.avg_moisture = None
    THEN [ret |-> FALSE, pump_start_time |-> start_time, branch |-> "no_moisture"]
  ELSE IF pump_is_running
    THEN IF start_time = None
           THEN [ret |-> FALSE, pump_start_time |-> start_time, branch |-> "desync"]
         ELSE IF elapsed_time >= pump_duration
           THEN [ret |-> FALSE, pump_start_time |-> start_time, branch |-> "expired"]
         ELSE [ret |-> TRUE, pump_start_time |-> start_time, branch |-> "running"]
  ELSE IF avg_readings.avg_moisture < moisture_min
    THEN [ret |-> TRUE, pump_start_time |-> current_time, branch |-> "start"]
  ELSE [ret |-> FALSE, pump_start_time |-> start_time, branch |-> "idle"]

\* Mutant of should_pump_be_on: a running pump without a recorded start is
\* adopted (its timer starts now) instead of being stopped
should_pump_be_on_adopting(avg_readings, pins, start_time, current_time, store) ==
  LET moisture_min == float(get_system_setting(store, "moisture", "min", Num(30)))
      pump_duration == float(get_system_setting(store, "moisture", "pump_duration", Num(60)))
      pump_is_running == GPIO_input(pins, "pump")
      elapsed_time == current_time - start_time
  IN
  IF ~RowIsTruthy(avg_readings) \/ avg_readings.avg_moisture = None
    THEN [ret |-> FALSE, pump_start_time |-> start_time, branch |-> "no_moisture"]
  ELSE IF pump_is_running
    THEN IF start_time = None
           THEN [ret |-> TRUE, pump_start_time |-> current_time, branch |-> "desync"]
         ELSE IF elapsed_time >= pump_duration
           THEN [ret |-> FALSE, pump_start_time |-> None, branch |-> "expired"]
         ELSE [ret |-> TRUE, pump_start_time |-> start_time, branch |-> "running"]
  ELSE IF avg_readings.avg_moisture < moisture_min
    THEN [ret |-> TRUE, pump_start_time |-> current_time, branch |-> "start"]
  ELSE [ret |-> FALSE, pump_start_time |-> start_time, branch |-> "idle"]

\* Mutant of should_pump_be_on: the pump also starts at avg_moisture =
\* moisture_min
should_pump_be_on_lenient(avg_readings, pins, start_time, current_time, store) ==
  LET moisture_min == float(get_system_setting(store, "moisture", "min", Num(30)))
      pump_duration == float(get_system_setting(store, "moisture", "pump_duration", Num(60)))
      pump_is_running == GPIO_input(pins, "pump")
      elapsed_time == current_time - start_time
  IN
  IF ~RowIsTruthy(avg_readings) \/ avg_readings.avg_moisture = None
    THEN [ret |-> FALSE, pump_start_time |-> start_time, branch |-> "no_moisture"]
  ELSE IF pump_is_running
    THEN IF start_time = None
           THEN [ret |-> FALSE, pump_start_time |-> start_time, branch |-> "desync"]
         ELSE IF elapsed_time >= pump_duration
           THEN [ret |-> FALSE, pump_start_time |-> None, branch |-> "expired"]
         ELSE [ret |-> TRUE, pump_start_time |-> start_time, branch |-> "running"]
  ELSE IF avg_readings.avg_moisture <= moisture_min
    THEN [ret |-> TRUE, pump_start_time |-> current_time, branch |-> "start"]
  ELSE [ret |-> FALSE, pump_start_time |-> start_time, branch |-> "idle"]

\* Mutant of should_pump_be_on: the pump is started without recording the
\* start time
should_pump_be_on_unrecorded(avg_readings, pins, start_time, current_time, store) ==
  LET moisture_min == float(get_system_setting(store, "moisture", "min", Num(30)))
      pump_duration == float(get_system_setting(store, "moisture", "pump_duration", Num(60)))
      pump_is_running == GPIO_input(pins, "pump")
      elapsed_time == current_time - start_time
  IN
  IF ~RowIsTruthy(avg_readings) \/ avg_readings.avg_moisture = None
    THEN [ret |-> FALSE, pump_start_time |-> start_time, branch |-> "no_moisture"]
  ELSE IF pump_is_running
    THEN IF start_time = None
           THEN [ret |-> FALSE, pump_start_time |-> start_time, branch |-> "desync"]
         ELSE IF elapsed_time >= pump_duration
           THEN [ret |-> FALSE, pump_start_time |-> None, branch |-> "expired"]
         ELSE [ret |-> TRUE, pump_start_time |-> start_time, branch |-> "running"]
  ELSE IF avg_readings.avg_moisture < moisture_min
    THEN [ret |-> TRUE, pump_start_time |-> start_time, branch |-> "start"]
  ELSE [ret |-> FALSE, pump_start_time |-> start_time, branch |-> "idle"]

\* Mutant of should_pump_be_on: a running pump has its start time set anew at
\* every call
should_pump_be_on_refreshing(avg_readings, pins, start_time, current_time, store) ==
  LET moisture_min == float(get_system_setting(store, "moisture", "min", Num(30)))
      pump_duration == float(get_system_setting(store, "moisture", "pump_duration", Num(60)))
      pump_is_running == GPIO_input(pins, "pump")
      elapsed_time == current_time - start_time
  IN
  IF ~RowIsTruthy(avg_readings) \/ avg_readings.avg_moisture = None
    THEN [ret |-> FALSE, pump_start_time |-> start_time, branch |-> "no_moisture"]
  ELSE IF pump_is_running
    THEN IF start_time = None
           THEN [ret |-> FALSE, pump_start_time |-> start_time, branch |-> "desync"]
         ELSE IF elapsed_time >= pump_duration
           THEN [ret |-> FALSE, pump_start_time |-> None, branch |-> "expired"]
         ELSE [ret |-> TRUE, pump_start_time |-> current_time, branch |-> "running"]
  ELSE IF avg_readings.avg_moisture < moisture_min
    THEN [ret |-> TRUE, pump_start_time |-> current_time, branch |-> "start"]
  ELSE [ret |-> FALSE, pump_start_time |-> start_time, branch |-> "idle"]

\* Mutant of should_pump_be_on: the start time of a finished run is kept and
\* the pump is started only when none is recorded
should_pump_be_on_single_shot(avg_readings, pins, start_time, current_time, store) ==
  LET moisture_min == float(get_system_setting(store, "moisture", "min", Num(30)))
      pump_duration == float(get_system_setting(store, "moisture", "pump_duration", Num(60)))
      pump_is_running == GPIO_input(pins, "pump")
      elapsed_time == current_time - start_time
  IN
  IF ~RowIsTruthy(avg_readings) \/ avg_readings.avg_moisture = None
    THEN [ret |-> FALSE, pump_start_time |-> start_time, branch |-> "no_moisture"]
  ELSE IF pump_is_running
    THEN IF start_time = None
           THEN [ret |-> FALSE, pump_start_time |-> start_time, branch |-> "desync"]
         ELSE IF elapsed_time >= pump_duration
           THEN [ret |-> FALSE, pump_start_time |-> start_time, branch |-> "expired"]
         ELSE [ret |-> TRUE, pump_start_time |-> start_time, branch |-> "running"]
  ELSE IF avg_readings.avg_moisture < moisture_min /\ start_time = None
    THEN [ret |-> TRUE, pump_start_time |-> current_time, branch |-> "start"]
  ELSE [ret |-> FALSE, pump_start_time |-> start_time, branch |-> "idle"]

\* ControlSystem.should_pump_be_on: the value returned and self.pump_start_time
\* after the call; branch names the return statement taken
should_pump_be_on(avg_readings, pins, start_time, current_time, store) ==
  LET moisture_min == float(get_system_setting(store, "moisture", "min", Num(30)))
      pump_duration == float(get_system_setting(store, "moisture", "pump_duration", Num(60)))
      pump_is_running == GPIO_input(pins, "pump")
      elapsed_time == current_time - start_time
  IN
  IF ~RowIsTruthy(avg_readings) \/ avg_readings.avg_moisture = None
    THEN [ret |-> FALSE, pump_start_time |-> start_time, branch |-> "no_moisture"]
  ELSE IF pump_is_running
    THEN IF start_time = None
           THEN [ret |-> FALSE, pump_start_time |-> start_time, branch |-> "desync"]
         ELSE IF elapsed_time >= pump_duration
           THEN [ret |-> FALSE, pump_start_time |-> None, branch |-> "expired"]
         ELSE [ret |-> TRUE, pump_start_time |-> start_time, branch |-> "running"]
  ELSE IF avg_readings.avg_moisture < moisture_min
    THEN [ret |-> TRUE, pump_start_time |-> current_time, branch |-> "start"]
  ELSE [ret |-> FALSE, pump_start_time |-> start_time, branch |-> "idle"]

\* x <= y on two values get_system_setting returned: str with str by code
\* point, numbers by value; a str against a number raises TypeError
CanCompare(x, y) == (x.t = "str") = (y.t = "str")
Leq(x, y) == IF x.t = "str" THEN StrLeq(x.s, y.s) ELSE x.n <= y.n

\* Mutant of should_lights_be_on: the off time itself is already dark
\* (current_time < light_off_time for <=)
should_lights_be_on_exclusive(store, current_time) ==
  LET light_on_time == get_system_setting(store, "light", "on_time", Str(<<"0", "6", ":", "0", "0">>))
      light_off_time == get_system_setting(store, "light", "off_time", Str(<<"2", "0", ":", "0", "0">>))
      cur == Str(current_time)
  IN
  IF Leq(light_on_time, light_off_time)
    THEN [ret |-> Leq(light_on_time, cur) /\ ~Leq(light_off_time, cur), raised |-> FALSE]
  ELSE [ret |-> Leq(light_on_time, cur) \/ ~Leq(light_off_time, cur), raised |-> FALSE]

\* ControlSystem.should_lights_be_on with datetime.now().strftime('%H:%M')
\* given as current_time; raised stands for the TypeError of a mixed comparison
should_lights_be_on(store, current_time) ==
  LET light_on_time == get_system_setting(store, "light", "on_time", Str(<<"0", "6", ":", "0", "0">>))
      light_off_time == get_system_setting(store, "light", "off_time", Str(<<"2", "0", ":", "0", "0">>))
      cur == Str(current_time)
  IN
  IF ~CanCompare(light_on_time, light_off_time) \/ ~CanCompare(light_on_time, cur) \/ ~CanCompare(cur, light_off_time)
    THEN [ret |-> FALSE, raised |-> TRUE]
  ELSE IF Leq(light_on_time, light_off_time)
    THEN [ret |-> Leq(light_on_time, cur) /\ Leq(cur, light_off_time), raised |-> FALSE]
  ELSE [ret |-> Leq(light_on_time, cur) \/ Leq(cur, light_off_time), raised |-> FALSE]

\* Mutant of should_fan_be_on: a value equal to its maximum triggers (>= for >)
should_fan_be_on_nonstrict(avg_readings, store) ==
  LET temp_max == float(get_system_setting(store, "temperature", "max", Num(75)))
      humid_max == float(get_system_setting(store, "humidity", "max", Num(80)))
      co2_max == float(get_system_setting(store, "co2", "max", Num(1500)))
  IN
  IF None \in {avg_readings.avg_temp, avg_readings.avg_humidity, avg_readings.avg_co2}
    THEN [ret |-> FALSE, raised |-> TRUE, trigger_reason |-> {}]
  ELSE [ret |-> avg_readings.avg_temp >= temp_max
                \/ avg_readings.avg_humidity >= humid_max
                \/ avg_readings.avg_co2 >= co2_max,
        raised |-> FALSE,
        trigger_reason |->
          (IF avg_readings.avg_temp >= temp_max THEN {"Temp"} ELSE {})
          \cup (IF avg_readings.avg_humidity >= humid_max THEN {"Humidity"} ELSE {})
          \cup (IF avg_readings.avg_co2 >= co2_max THEN {"CO2"} ELSE {})]

\* ControlSystem.should_fan_be_on: the value returned, the trigger_reason list
\* (as the set of its entries) and whether it raised: a None average compared
\* with a float is a TypeError, in the result expression or in the ifs after it
should_fan_be_on(avg_readings, store) ==
  LET temp_max == float(get_system_setting(store, "temperature", "max", Num(75)))
      humid_max == float(get_system_setting(store, "humidity", "max", Num(80)))
      co2_max == float(get_system_setting(store, "co2", "max", Num(1500)))
      trigger_reason ==
        (IF avg_readings.avg_temp > temp_max THEN {"Temp"} ELSE {})
        \cup (IF avg_readings.avg_humidity > humid_max THEN {"Humidity"} ELSE {})
        \cup (IF avg_readings.avg_co2 > co2_max THEN {"CO2"} ELSE {})
  IN
  IF ~RowIsTruthy(avg_readings)
    THEN [ret |-> FALSE, raised |-> FALSE, trigger_reason |-> {}]
  ELSE IF None \in {avg_readings.avg_temp, avg_readings.avg_humidity, avg_readings.avg_co2}
    THEN [ret |-> FALSE, raised |-> TRUE, trigger_reason |-> {}]
  ELSE [ret |-> avg_readings.avg_temp > temp_max
                \/ avg_readings.avg_humidity > humid_max
                \/ avg_readings.avg_co2 > co2_max,
        raised |-> FALSE,
        trigger_reason |-> trigger_reason]

\* Mutant of setup_gpio: the pump relay is not driven LOW
setup_gpio_without_pump(pins) ==
  GPIO_output(GPIO_output(pins, "light", FALSE), "fan", FALSE)

\* ControlSystem.setup_gpio: the three relay pins become outputs driven LOW
setup_gpio(pins) ==
  GPIO_output(GPIO_output(GPIO_output(pins, "light", FALSE), "fan", FALSE), "pump", FALSE)

(***************************************************************************)
(* The control process: __main__, ControlSystem.__init__, run and the      *)
(* steps of one control_systems call, beside the settings pages of the web *)
(* process, which save settings while the loop runs.                       *)
(***************************************************************************)
VARIABLES
  pc,               \* where the control process is: "start", "avg", "light",
                    \* "fan", "pump" (inside control_systems), "sleep",
                    \* "exited" (run returned), "killed" (ended by SIGTERM)
  pins,             \* the state of the three relay pins
  pump_start_time,  \* self.pump_start_time
  now,              \* time.time()
  settings,         \* the system_settings table: (setting_type, key) -> value
  moistureMapped,   \* whether the SensorReading class has a moisture attribute:
                    \* control.py:118, routes.py:55 and scd41.py:66 use one,
                    \* models.py:31-38 declares none
  cycle,            \* the number of control_systems calls begun
  avg_readings,     \* control_systems' avg_readings
  status_before,    \* control_systems' *_status_before, per channel
  should_be_on,     \* control_systems' *_should_be_on, per channel
  writes,           \* GPIO.output calls of this control_systems call that
                    \* returned, per channel
  logged,           \* "... turned ON/OFF" lines of this call, per channel
  pumpCall,         \* the last should_pump_be_on call: its inputs and result
  fanCall,          \* the last should_fan_be_on call: its inputs and result
  lightCall,        \* the last should_lights_be_on call: its inputs and result
  pumpDecisions,    \* the pump decisions of the cycles so far, oldest first
  lowEveryCycle,    \* every pump decision so far saw avg_moisture below
                    \* moisture_min and a pump_duration of 120
  exitVia,          \* how run ended: "none", "sigint", "exception" (raised by
                    \* a read or a decision), "write_error" (raised by
                    \* GPIO.output), "sigterm"
  table,            \* the rows of system_settings, in the order of their ids
  saves,            \* the save_system_setting calls made so far, oldest first
  settingCall,      \* the last get_system_setting call: its inputs and result
  readings,         \* the rows of sensor_reading inside the averaging window,
                    \* oldest first
  procs,            \* the web processes inside save_system_setting: where each
                    \* is, what its lookup found, what it saves
  web               \* the light settings page of the web process: where its
                    \* form submit is, the submitted times, and the schedules
                    \* the table has held as a whole

vars ==
  <<pc, pins, pump_start_time, now, settings, moistureMapped, cycle, avg_readings,
    status_before, should_be_on, writes, logged, pumpCall, fanCall, lightCall,
    pumpDecisions, lowEveryCycle, exitVia, table, saves, settingCall, readings,
    procs, web>>

\* The state of the settings rows and of the web process
storeVars == <<table, saves, settingCall, readings, procs, web>>

\* Bounds of the model
MaxCycles == 3
MaxJitter == 1

\* time.sleep(60)
Cadence == 60

NoRow == Row(None, None, None, None)
Undecided == "undecided"
OnOff(b) == IF b THEN "ON" ELSE "OFF"
NoCall == [called |-> FALSE]

\* The averages a window with samples can give: temperature, humidity and co2
\* are NOT NULL columns; moisture is None when no sample of the window has one
SampleRows ==
  {Row(t, 50, 400, m) : t \in {75, 76}, m \in {None, 25, 30}}

\* A window without samples: AVG of nothing is NULL in every column
EmptyRow == NoRow

AvgRows == SampleRows \cup {EmptyRow}

\* datetime.now().strftime('%H:%M') at the minutes the model looks at
ClockMinutes == {6 * 60, 20 * 60 + 1}

DefaultStore == [k \in SettingKeys |-> Absent]

\* What the settings pages save while the loop runs: save_system_setting(
\* setting_type, key, value) with FloatField values as str(float) and the light
\* schedule as strftime('%H:%M')
SaveChoices ==
  {<<"moisture", "min", FloatStr(35)>>,
   <<"moisture", "pump_duration", FloatStr(120)>>,
   <<"moisture", "pump_duration", FloatStr(30)>>}

\* routes.save_system_setting: update the row of (setting_type, key) or insert it
save_system_setting(store, setting_type, key, value) ==
  [store EXCEPT ![<<setting_type, key>>] = value]

FreshCycle ==
  /\ status_before' = [ch \in Channels |-> Undecided]
  /\ should_be_on' = [ch \in Channels |-> Undecided]
  /\ writes' = [ch \in Channels |-> 0]
  /\ logged' = [ch \in Channels |-> FALSE]
  /\ avg_readings' = NoRow
  /\ pumpCall' = NoCall
  /\ fanCall' = NoCall
  /\ lightCall' = NoCall

\* No row, no call, no form submit under way
StoreIdle ==
  /\ table = <<>>
  /\ saves = <<>>
  /\ settingCall = NoCall
  /\ readings = <<>>
  /\ procs = <<>>
  /\ web = [pc |-> "idle", on_time |-> Absent, off_time |-> Absent, schedules |-> {}, submits |-> 0]

Init ==
  /\ pc = "start"
  /\ pins \in [Channels -> PinStates]
  /\ pump_start_time = None
  /\ now = 0
  /\ settings = DefaultStore
  /\ moistureMapped \in BOOLEAN
  /\ cycle = 0
  /\ avg_readings = NoRow
  /\ status_before = [ch \in Channels |-> Undecided]
  /\ should_be_on = [ch \in Channels |-> Undecided]
  /\ writes = [ch \in Channels |-> 0]
  /\ logged = [ch \in Channels |-> FALSE]
  /\ pumpCall = NoCall
  /\ fanCall = NoCall
  /\ lightCall = NoCall
  /\ pumpDecisions = <<>>
  /\ lowEveryCycle = TRUE
  /\ exitVia = "none"
  /\ StoreIdle

\* Mutant of Shutdown: the exception is caught inside the loop, which goes on
\* to its sleep
Shutdown_resumes(how) ==
  /\ pins' = pins
  /\ pc' = "sleep"
  /\ exitVia' = how

\* run's except clauses and its finally: GPIO.cleanup(), then run returns
Shutdown(how) ==
  /\ pins' = GPIO_cleanup(pins)
  /\ pc' = "exited"
  /\ exitVia' = how

InCycle == pc \in {"avg", "light", "fan", "pump"}
InRun == InCycle \/ pc = "sleep"

\* __main__: ControlSystem() (pump_start_time = None, setup_gpio), then run()
\* enters its loop and calls control_systems
Construct ==
  /\ pc = "start"
  /\ pump_start_time' = None
  /\ pins' = setup_gpio(pins)
  /\ pc' = "avg"
  /\ cycle' = 1
  /\ UNCHANGED <<now, settings, moistureMapped, avg_readings, status_before,
                 should_be_on, writes, logged, pumpCall, fanCall, lightCall,
                 pumpDecisions, lowEveryCycle, exitVia>>
  /\ UNCHANGED storeVars

\* get_average_readings, line 123: the argument of logger.debug is built
\* whatever the log level is; with avg_temp present it formats the four
\* averages with :.1f, and formatting a None average raises TypeError
DebugLineRaises(row) ==
  row.avg_temp # None /\ None \in {row.avg_humidity, row.avg_co2, row.avg_moisture}

\* control_systems, line 244: get_average_readings returns the averaged row, or
\* raises in its debug line, and run's except Exception and finally follow
GetAverageReadings ==
  /\ pc = "avg"
  /\ moistureMapped
  /\ \E row \in AvgRows :
       IF DebugLineRaises(row)
         THEN /\ Shutdown("exception")
              /\ UNCHANGED avg_readings
         ELSE /\ avg_readings' = row
              /\ pc' = "light"
              /\ UNCHANGED <<pins, exitVia>>
  /\ UNCHANGED <<pump_start_time, now, settings, moistureMapped, cycle,
                 status_before, should_be_on, writes, logged, pumpCall, fanCall,
                 lightCall, pumpDecisions, lowEveryCycle>>
  /\ UNCHANGED storeVars

\* get_average_readings raises AttributeError at SensorReading.moisture when the
\* class maps no such column; run's except Exception and finally follow
GetAverageReadingsRaises ==
  /\ pc = "avg"
  /\ ~moistureMapped
  /\ Shutdown("exception")
  /\ UNCHANGED <<pump_start_time, now, settings, moistureMapped, cycle, avg_readings,
                 status_before, should_be_on, writes, logged, pumpCall, fanCall,
                 lightCall, pumpDecisions, lowEveryCycle>>
  /\ UNCHANGED storeVars

\* control_systems, lines 247-252: the light
LightControl ==
  /\ pc = "light"
  /\ \E m \in ClockMinutes :
       LET r == should_lights_be_on(settings, HHMM(m))
           after == GPIO_output(pins, "light", r.ret)
       IN
       /\ lightCall' = [called |-> TRUE, minute |-> m, ret |-> r.ret, raised |-> r.raised]
       /\ IF r.raised
            THEN /\ Shutdown("exception")
                 /\ UNCHANGED <<status_before, should_be_on, writes, logged>>
            ELSE /\ status_before' = [status_before EXCEPT !["light"] = OnOff(GPIO_input(pins, "light"))]
                 /\ should_be_on' = [should_be_on EXCEPT !["light"] = OnOff(r.ret)]
                 /\ pins' = after
                 /\ writes' = [writes EXCEPT !["light"] = @ + 1]
                 /\ logged' = [logged EXCEPT !["light"] = GPIO_input(pins, "light") # GPIO_input(after, "light")]
                 /\ pc' = "fan"
                 /\ UNCHANGED exitVia
  /\ UNCHANGED <<pump_start_time, now, settings, moistureMapped, cycle, avg_readings,
                 pumpCall, fanCall, pumpDecisions, lowEveryCycle>>
  /\ UNCHANGED storeVars

\* Mutant of FanControl: the fan decision is written to the pump pin
FanControl_wrong_pin ==
  /\ pc = "fan"
  /\ LET r == should_fan_be_on(avg_readings, settings)
         after == GPIO_output(pins, "pump", r.ret)
     IN
     /\ fanCall' = [called |-> TRUE, ret |-> r.ret, raised |-> r.raised,
                    trigger_reason |-> r.trigger_reason]
     /\ IF r.raised
          THEN /\ Shutdown("exception")
               /\ UNCHANGED <<status_before, should_be_on, writes, logged>>
          ELSE /\ status_before' = [status_before EXCEPT !["fan"] = OnOff(GPIO_input(pins, "fan"))]
               /\ should_be_on' = [should_be_on EXCEPT !["fan"] = OnOff(r.ret)]
               /\ pins' = after
               /\ writes' = [writes EXCEPT !["pump"] = @ + 1]
               /\ logged' = [logged EXCEPT !["fan"] = GPIO_input(pins, "fan") # GPIO_input(after, "fan")]
               /\ pc' = "pump"
               /\ UNCHANGED exitVia
  /\ UNCHANGED <<pump_start_time, now, settings, moistureMapped, cycle, avg_readings,
                 pumpCall, lightCall, pumpDecisions, lowEveryCycle>>
  /\ UNCHANGED storeVars

\* control_systems, lines 255-260: the fan
FanControl ==
  /\ pc = "fan"
  /\ LET r == should_fan_be_on(avg_readings, settings)
         after == GPIO_output(pins, "fan", r.ret)
     IN
     /\ fanCall' = [called |-> TRUE, ret |-> r.ret, raised |-> r.raised,
                    trigger_reason |-> r.trigger_reason]
     /\ IF r.raised
          THEN /\ Shutdown("exception")
               /\ UNCHANGED <<status_before, should_be_on, writes, logged>>
          ELSE /\ status_before' = [status_before EXCEPT !["fan"] = OnOff(GPIO_input(pins, "fan"))]
               /\ should_be_on' = [should_be_on EXCEPT !["fan"] = OnOff(r.ret)]
               /\ pins' = after
               /\ writes' = [writes EXCEPT !["fan"] = @ + 1]
               /\ logged' = [logged EXCEPT !["fan"] = GPIO_input(pins, "fan") # GPIO_input(after, "fan")]
               /\ pc' = "pump"
               /\ UNCHANGED exitVia
  /\ UNCHANGED <<pump_start_time, now, settings, moistureMapped, cycle, avg_readings,
                 pumpCall, lightCall, pumpDecisions, lowEveryCycle>>
  /\ UNCHANGED storeVars

\* What the model keeps of a should_pump_be_on call that returned r: the
\* inputs it read (relay, start time, clock, thresholds, moisture), its result
RecordPumpCall(r) ==
  LET moisture_min == float(get_system_setting(settings, "moisture", "min", Num(30)))
      pump_duration == float(get_system_setting(settings, "moisture", "pump_duration", Num(60)))
      moisture == avg_readings.avg_moisture
  IN
  /\ pumpCall' = [called |-> TRUE, running |-> GPIO_input(pins, "pump"),
                  start_time |-> pump_start_time, current_time |-> now,
                  moisture |-> moisture, moisture_min |-> moisture_min,
                  pump_duration |-> pump_duration, ret |-> r.ret, branch |-> r.branch]
  /\ pumpDecisions' = Append(pumpDecisions, r.ret)
  /\ lowEveryCycle' = (lowEveryCycle /\ moisture # None /\ moisture < moisture_min /\ pump_duration = 120)

\* Mutant of PumpControl: the step drives the pump pin LOW before it writes
\* the decision
PumpControl_rewrites ==
  /\ pc = "pump"
  /\ LET r == should_pump_be_on(avg_readings, pins, pump_start_time, now, settings)
         after == GPIO_output(pins, "pump", r.ret)
     IN
     /\ RecordPumpCall(r)
     /\ pump_start_time' = r.pump_start_time
     /\ status_before' = [status_before EXCEPT !["pump"] = OnOff(GPIO_input(pins, "pump"))]
     /\ should_be_on' = [should_be_on EXCEPT !["pump"] = OnOff(r.ret)]
     /\ pins' = after
     /\ writes' = [writes EXCEPT !["pump"] = @ + 2]
     /\ logged' = [logged EXCEPT !["pump"] = GPIO_input(pins, "pump") # GPIO_input(after, "pump")]
  /\ pc' = "sleep"
  /\ UNCHANGED <<now, settings, moistureMapped, cycle, avg_readings, fanCall, lightCall, exitVia>>
  /\ UNCHANGED storeVars

\* control_systems, lines 263-268: the pump; control_systems then returns and
\* run goes to time.sleep(60)
PumpControl ==
  /\ pc = "pump"
  /\ LET r == should_pump_be_on(avg_readings, pins, pump_start_time, now, settings)
         after == GPIO_output(pins, "pump", r.ret)
     IN
     /\ RecordPumpCall(r)
     /\ pump_start_time' = r.pump_start_time
     /\ status_before' = [status_before EXCEPT !["pump"] = OnOff(GPIO_input(pins, "pump"))]
     /\ should_be_on' = [should_be_on EXCEPT !["pump"] = OnOff(r.ret)]
     /\ pins' = after
     /\ writes' = [writes EXCEPT !["pump"] = @ + 1]
     /\ logged' = [logged EXCEPT !["pump"] = GPIO_input(pins, "pump") # GPIO_input(after, "pump")]
  /\ pc' = "sleep"
  /\ UNCHANGED <<now, settings, moistureMapped, cycle, avg_readings, fanCall, lightCall, exitVia>>
  /\ UNCHANGED storeVars

\* run: time.sleep(60) returns and the loop calls control_systems again; the
\* cycle itself took jitter seconds
Sleep ==
  /\ pc = "sleep"
  /\ cycle < MaxCycles
  /\ \E jitter \in 0..MaxJitter : now' = now + Cadence + jitter
  /\ cycle' = cycle + 1
  /\ pc' = "avg"
  /\ FreshCycle
  /\ UNCHANGED <<pins, pump_start_time, settings, moistureMapped, pumpDecisions, lowEveryCycle, exitVia>>
  /\ UNCHANGED storeVars

\* A read of the readings or the settings table fails inside a step of the
\* cycle (sqlalchemy raises): run's except Exception and finally follow
StoreReadFails ==
  /\ InCycle
  /\ moistureMapped
  /\ Shutdown("exception")
  /\ UNCHANGED <<pump_start_time, now, settings, moistureMapped, cycle, avg_readings,
                 status_before, should_be_on, writes, logged, pumpCall, fanCall,
                 lightCall, pumpDecisions, lowEveryCycle>>
  /\ UNCHANGED storeVars

\* GPIO.output raises inside a step of control_systems (lines 249, 257, 265):
\* the step has read the relay and taken its decision (the pump's with its
\* effect on pump_start_time), the write did not happen, and run's except
\* Exception and finally follow
ActuatorWriteFails ==
  /\ pc \in {"light", "fan", "pump"}
  /\ IF pc = "light"
       THEN /\ \E m \in ClockMinutes :
                 LET r == should_lights_be_on(settings, HHMM(m)) IN
                 /\ ~r.raised
                 /\ lightCall' = [called |-> TRUE, minute |-> m, ret |-> r.ret, raised |-> r.raised]
            /\ UNCHANGED <<pump_start_time, fanCall, pumpCall, pumpDecisions, lowEveryCycle>>
     ELSE IF pc = "fan"
       THEN /\ LET r == should_fan_be_on(avg_readings, settings) IN
               /\ ~r.raised
               /\ fanCall' = [called |-> TRUE, ret |-> r.ret, raised |-> r.raised,
                              trigger_reason |-> r.trigger_reason]
            /\ UNCHANGED <<pump_start_time, lightCall, pumpCall, pumpDecisions, lowEveryCycle>>
     ELSE /\ LET r == should_pump_be_on(avg_readings, pins, pump_start_time, now, settings) IN
             /\ RecordPumpCall(r)
             /\ pump_start_time' = r.pump_start_time
          /\ UNCHANGED <<lightCall, fanCall>>
  /\ Shutdown("write_error")
  /\ UNCHANGED <<now, settings, moistureMapped, cycle, avg_readings, status_before,
                 should_be_on, writes, logged>>
  /\ UNCHANGED storeVars

\* SIGINT while run is in its try block: KeyboardInterrupt, then finally
KeyboardInterrupt ==
  /\ InRun
  /\ Shutdown("sigint")
  /\ UNCHANGED <<pump_start_time, now, settings, moistureMapped, cycle, avg_readings,
                 status_before, should_be_on, writes, logged, pumpCall, fanCall,
                 lightCall, pumpDecisions, lowEveryCycle>>
  /\ UNCHANGED storeVars

\* SIGTERM, for which the program installs no handler: the interpreter ends at
\* once, no except or finally clause runs and the pins stay as they are
Terminate ==
  /\ InRun
  /\ pc' = "killed"
  /\ exitVia' = "sigterm"
  /\ UNCHANGED <<pins, pump_start_time, now, settings, moistureMapped, cycle, avg_readings,
                 status_before, should_be_on, writes, logged, pumpCall, fanCall,
                 lightCall, pumpDecisions, lowEveryCycle>>
  /\ UNCHANGED storeVars

\* A settings page of the web process saves one setting
SaveSetting ==
  /\ pc \notin {"exited", "killed"}
  /\ \E c \in SaveChoices : settings' = save_system_setting(settings, c[1], c[2], c[3])
  /\ UNCHANGED <<pc, pins, pump_start_time, now, moistureMapped, cycle, avg_readings,
                 status_before, should_be_on, writes, logged, pumpCall, fanCall,
                 lightCall, pumpDecisions, lowEveryCycle, exitVia>>
  /\ UNCHANGED storeVars

\* __main__, lines 293-296: after either except clause and the finally, run
\* returns, the script ends and the interpreter exits with status 0; a process
\* ended by SIGTERM has the signal as its status (128 + 15 in a shell)
exit_status == IF exitVia = "sigterm" THEN 128 + 15 ELSE 0

Next ==
  \/ Construct
  \/ GetAverageReadings
  \/ GetAverageReadingsRaises
  \/ LightControl
  \/ FanControl
  \/ PumpControl
  \/ Sleep
  \/ StoreReadFails
  \/ ActuatorWriteFails
  \/ KeyboardInterrupt
  \/ Terminate
  \/ SaveSetting

Spec == Init /\ [][Next]_vars

(***************************************************************************)
(* The decision functions on their own: each specification below draws the *)
(* object state and the inputs of one function from bounded sets and calls *)
(* the function on them, up to MaxCalls times in a row.                    *)
(***************************************************************************)
MaxCalls == 2

Quiet ==
  /\ pc = "fn"
  /\ moistureMapped = TRUE
  /\ cycle = 0
  /\ status_before = [ch \in Channels |-> Undecided]
  /\ should_be_on = [ch \in Channels |-> Undecided]
  /\ writes = [ch \in Channels |-> 0]
  /\ logged = [ch \in Channels |-> FALSE]
  /\ pumpCall = NoCall
  /\ fanCall = NoCall
  /\ lightCall = NoCall
  /\ pumpDecisions = <<>>
  /\ lowEveryCycle = TRUE
  /\ exitVia = "none"

StoresOver(choices) ==
  {st \in [SettingKeys -> UNION {choices[k] : k \in SettingKeys}] : \A k \in SettingKeys : st[k] \in choices[k]}

\* should_pump_be_on
PumpStoreChoices ==
  [k \in SettingKeys |->
     IF k = <<"moisture", "min">> THEN {Absent, FloatStr(20), FloatStr(35)}
     ELSE IF k = <<"moisture", "pump_duration">> THEN {Absent, FloatStr(120)}
     ELSE {Absent}]

PumpRows == {EmptyRow} \cup {Row(75, 50, 400, m) : m \in {None, 19, 20, 25, 30, 35}}

InitPump ==
  /\ Quiet
  /\ StoreIdle
  /\ pins \in {[ch \in Channels |-> IF ch = "pump" THEN p ELSE LOW] : p \in {LOW, HIGH}}
  /\ pump_start_time \in {None, 0, 60}
  /\ now \in {100, 120, 180}
  /\ settings \in StoresOver(PumpStoreChoices)
  /\ avg_readings \in PumpRows

CallPump ==
  /\ pc = "fn"
  /\ cycle < MaxCalls
  /\ LET r == should_pump_be_on(avg_readings, pins, pump_start_time, now, settings) IN
     /\ RecordPumpCall(r)
     /\ pump_start_time' = r.pump_start_time
  /\ cycle' = cycle + 1
  /\ UNCHANGED <<pc, pins, now, settings, moistureMapped, avg_readings, status_before,
                 should_be_on, writes, logged, fanCall, lightCall, exitVia>>
  /\ UNCHANGED storeVars

SpecPump == InitPump /\ [][CallPump]_vars

\* should_fan_be_on
FanStoreChoices ==
  [k \in SettingKeys |->
     IF k = <<"temperature", "max">> THEN {Absent, FloatStr(76)}
     ELSE IF k = <<"humidity", "max">> THEN {Absent, FloatStr(50)}
     ELSE IF k = <<"co2", "max">> THEN {Absent, FloatStr(400)}
     ELSE {Absent}]

FanRows ==
  {EmptyRow} \cup {Row(t, h, c, 25) : t \in {75, 76, 77}, h \in {50, 51, 80, 81}, c \in {400, 401, 1500, 1501}}

InitFan ==
  /\ Quiet
  /\ StoreIdle
  /\ pins = [ch \in Channels |-> LOW]
  /\ pump_start_time = None
  /\ now = 0
  /\ settings \in StoresOver(FanStoreChoices)
  /\ avg_readings \in FanRows

CallFan ==
  /\ pc = "fn"
  /\ cycle < MaxCalls
  /\ LET r == should_fan_be_on(avg_readings, settings) IN
     fanCall' = [called |-> TRUE, ret |-> r.ret, raised |-> r.raised,
                 trigger_reason |-> r.trigger_reason]
  /\ cycle' = cycle + 1
  /\ UNCHANGED <<pc, pins, pump_start_time, now, settings, moistureMapped, avg_readings,
                 status_before, should_be_on, writes, logged, pumpCall, lightCall,
                 pumpDecisions, lowEveryCycle, exitVia>>
  /\ UNCHANGED storeVars

SpecFan == InitFan /\ [][CallFan]_vars

\* should_lights_be_on: the schedules the light settings page can have saved
\* (strftime('%H:%M') of a time of day), and the minutes the clock is read at
ScheduleMinutes == {0, 1, 6 * 60 - 1, 6 * 60, 9 * 60 + 59, 10 * 60, 20 * 60, 20 * 60 + 1, 23 * 60 + 59}

LightStoreChoices ==
  [k \in SettingKeys |->
     IF k \in {<<"light", "on_time">>, <<"light", "off_time">>}
       THEN {Absent} \cup {HHMM(m) : m \in ScheduleMinutes}
     ELSE {Absent}]

InitLights ==
  /\ Quiet
  /\ StoreIdle
  /\ pins = [ch \in Channels |-> LOW]
  /\ pump_start_time = None
  /\ now = 0
  /\ settings \in StoresOver(LightStoreChoices)
  /\ avg_readings = NoRow

CallLights ==
  /\ pc = "fn"
  /\ cycle < MaxCalls
  /\ \E m \in ScheduleMinutes \cup {6 * 60 + 1, 19 * 60 + 59} :
       LET r == should_lights_be_on(settings, HHMM(m)) IN
       lightCall' = [called |-> TRUE, minute |-> m, ret |-> r.ret, raised |-> r.raised]
  /\ cycle' = cycle + 1
  /\ UNCHANGED <<pc, pins, pump_start_time, now, settings, moistureMapped, avg_readings,
                 status_before, should_be_on, writes, logged, pumpCall, fanCall,
                 pumpDecisions, lowEveryCycle, exitVia>>
  /\ UNCHANGED storeVars

SpecLights == InitLights /\ [][CallLights]_vars

\* get_system_setting: the strings a row can hold, a number, a spelling of
\* true or false, or anything else, and the defaults a caller passes
StoredStrings ==
  {<<"3", "0", ".", "0">>, <<"1", "2", "0">>, <<"0">>,
   <<"t", "r", "u", "e">>, <<"T", "r", "u", "e">>, <<"T", "R", "U", "E">>,
   <<"f", "a", "l", "s", "e">>, <<"F", "a", "l", "s", "e">>, <<"F", "A", "L", "S", "E">>,
   <<"t", "r", "u">>, <<"f", "a", "l", "s", "e", "e">>, <<"o", "n">>,
   <<"0", "6", ":", "0", "0">>, <<>>}

\* The tables of the lookup: a row for (moisture, min) or none, a row for
\* (light, on_time) or none, no other row
LookupStores ==
  {[DefaultStore EXCEPT ![<<"moisture", "min">>] = a, ![<<"light", "on_time">>] = b] :
     a \in {Absent} \cup StoredStrings, b \in {Absent, <<"0", "6", ":", "0", "0">>}}

LookupDefaults == {Num(30), Str(<<"0", "6", ":", "0", "0">>)}

InitLookup ==
  /\ Quiet
  /\ pins = [ch \in Channels |-> LOW]
  /\ pump_start_time = None
  /\ now = 0
  /\ settings \in LookupStores
  /\ avg_readings = NoRow
  /\ StoreIdle

CallGet ==
  /\ pc = "fn"
  /\ cycle < MaxCalls
  /\ \E k \in {<<"moisture", "min">>, <<"light", "on_time">>, <<"light", "off_time">>}, d \in LookupDefaults :
       settingCall' = [called |-> TRUE, key |-> k, default |-> d,
                       ret |-> get_system_setting(settings, k[1], k[2], d)]
  /\ cycle' = cycle + 1
  /\ UNCHANGED <<pc, pins, pump_start_time, now, settings, moistureMapped, avg_readings,
                 status_before, should_be_on, writes, logged, pumpCall, fanCall, lightCall,
                 pumpDecisions, lowEveryCycle, exitVia, table, saves, readings, procs, web>>

SpecLookup == InitLookup /\ [][CallGet]_vars

\* The rows of system_settings under save_system_setting and get_system_setting
MaxSaves == 3

\* str(value) in save_system_setting: of a float, of a bool, of a str
str(v) ==
  IF v.t = "float" THEN FloatStr(v.n)
  ELSE IF v.t = "bool" THEN (IF v.n = 1 THEN <<"T", "r", "u", "e">> ELSE <<"F", "a", "l", "s", "e">>)
  ELSE v.s

\* SystemSetting.query.filter_by(setting_type=..., key=...).first(): the
\* position of the first row that matches, 0 for None
first(rows, setting_type, key) ==
  LET hits == {i \in 1..Len(rows) : rows[i].setting_type = setting_type /\ rows[i].key = key} IN
  IF hits = {} THEN 0 ELSE CHOOSE i \in hits : \A j \in hits : i <= j

\* Mutant of save_system_setting_row: every save adds a row
save_system_setting_row_insert(rows, setting_type, key, value) ==
  Append(rows, [setting_type |-> setting_type, key |-> key, value |-> str(value)])

\* routes.save_system_setting on the rows: the first row of (setting_type, key)
\* gets str(value), or a new row is added when there is none; commit
save_system_setting_row(rows, setting_type, key, value) ==
  LET setting == first(rows, setting_type, key) IN
  IF setting # 0
    THEN [rows EXCEPT ![setting].value = str(value)]
    ELSE Append(rows, [setting_type |-> setting_type, key |-> key, value |-> str(value)])

\* The table as get_system_setting's queries see it: per (setting_type, key)
\* the value of the first row that matches
StoreOf(rows) ==
  [k \in SettingKeys |->
     IF first(rows, k[1], k[2]) = 0 THEN Absent ELSE rows[first(rows, k[1], k[2])].value]

UpsertKeys == {<<"moisture", "min">>, <<"light", "on_time">>}

\* What the settings pages and their callers pass as value: a FloatField's
\* float, a strftime string, a bool, a str of digits
UpsertValues ==
  {Num(35), Str(<<"0", "6", ":", "0", "0">>), Bool(TRUE), Str(<<"2", "0">>)}

InitUpsert ==
  /\ Quiet
  /\ pins = [ch \in Channels |-> LOW]
  /\ pump_start_time = None
  /\ now = 0
  /\ settings = DefaultStore
  /\ avg_readings = NoRow
  /\ StoreIdle

SaveCall ==
  /\ pc = "fn"
  /\ cycle < MaxSaves
  /\ \E k \in UpsertKeys, v \in UpsertValues :
       /\ table' = save_system_setting_row(table, k[1], k[2], v)
       /\ saves' = Append(saves, [key |-> k, value |-> v])
  /\ cycle' = cycle + 1
  /\ UNCHANGED <<pc, pins, pump_start_time, now, settings, moistureMapped, avg_readings,
                 status_before, should_be_on, writes, logged, pumpCall, fanCall, lightCall,
                 pumpDecisions, lowEveryCycle, exitVia, settingCall, readings, procs, web>>

GetCall ==
  /\ pc = "fn"
  /\ \E k \in UpsertKeys :
       settingCall' = [called |-> TRUE, key |-> k, default |-> Num(30), after |-> Len(saves),
                       ret |-> get_system_setting(StoreOf(table), k[1], k[2], Num(30))]
  /\ UNCHANGED <<pc, pins, pump_start_time, now, settings, moistureMapped, cycle, avg_readings,
                 status_before, should_be_on, writes, logged, pumpCall, fanCall, lightCall,
                 pumpDecisions, lowEveryCycle, exitVia, table, saves, readings, procs, web>>

SpecUpsert == InitUpsert /\ [][SaveCall \/ GetCall]_vars

\* should_lights_be_on beside the light settings page: the function reads
\* on_time and off_time with one query each, the page saves them with one
\* commit each, and the two processes are scheduled independently. A SELECT
\* sees what is committed when it runs.
MaxSubmits == 2

\* form.light_on_time.data.strftime('%H:%M'), form.light_off_time likewise
FormTimes == {HHMM(8 * 60), HHMM(22 * 60)}

InitSchedule ==
  /\ Quiet
  /\ pins = [ch \in Channels |-> LOW]
  /\ pump_start_time = None
  /\ now = 0
  /\ settings \in {DefaultStore,
                    [DefaultStore EXCEPT ![<<"light", "on_time">>] = HHMM(6 * 60),
                                         ![<<"light", "off_time">>] = HHMM(20 * 60)]}
  /\ avg_readings = NoRow
  /\ table = <<>>
  /\ saves = <<>>
  /\ settingCall = NoCall
  /\ readings = <<>>
  /\ procs = <<>>
  /\ web = [pc |-> "idle", on_time |-> Absent, off_time |-> Absent,
            schedules |-> {<<settings[<<"light", "on_time">>], settings[<<"light", "off_time">>]>>},
            submits |-> 0]

ScheduleFrame ==
  UNCHANGED <<pins, pump_start_time, now, moistureMapped, avg_readings, status_before,
              should_be_on, writes, logged, pumpCall, fanCall, pumpDecisions,
              lowEveryCycle, exitVia, table, saves, settingCall, readings, procs>>

\* light_settings, the first save of a form submit: on_time is committed
SubmitOnTime ==
  /\ web.pc = "idle"
  /\ web.submits < MaxSubmits
  /\ \E on_time \in FormTimes, off_time \in FormTimes :
       /\ settings' = save_system_setting(settings, "light", "on_time", on_time)
       /\ web' = [web EXCEPT !.pc = "saved_on_time", !.on_time = on_time,
                              !.off_time = off_time, !.submits = @ + 1]
  /\ UNCHANGED <<pc, cycle, lightCall>>
  /\ ScheduleFrame

\* light_settings, the second save of the form submit: off_time is committed
\* and the table holds the submitted schedule
SubmitOffTime ==
  /\ web.pc = "saved_on_time"
  /\ settings' = save_system_setting(settings, "light", "off_time", web.off_time)
  /\ web' = [web EXCEPT !.pc = "idle", !.schedules = @ \cup {<<web.on_time, web.off_time>>}]
  /\ UNCHANGED <<pc, cycle, lightCall>>
  /\ ScheduleFrame

\* should_lights_be_on, line 179: the query for on_time; the call is then at
\* the query for off_time
ReadOnTime ==
  /\ pc = "fn"
  /\ cycle < MaxCalls
  /\ lightCall' = [called |-> FALSE, on_time |-> settings[<<"light", "on_time">>]]
  /\ pc' = "lights_off_time"
  /\ UNCHANGED <<cycle, settings, web>>
  /\ ScheduleFrame

\* should_lights_be_on, lines 180-191: the query for off_time, then the
\* decision on the on_time read before and the off_time read now
ReadOffTime ==
  /\ pc = "lights_off_time"
  /\ \E m \in ClockMinutes :
       LET read == [settings EXCEPT ![<<"light", "on_time">>] = lightCall.on_time]
           r == should_lights_be_on(read, HHMM(m))
       IN
       lightCall' = [called |-> TRUE, minute |-> m, ret |-> r.ret, raised |-> r.raised,
                     on_time |-> lightCall.on_time,
                     off_time |-> settings[<<"light", "off_time">>]]
  /\ pc' = "fn"
  /\ cycle' = cycle + 1
  /\ UNCHANGED <<settings, web>>
  /\ ScheduleFrame

SpecSchedule ==
  InitSchedule /\ [][SubmitOnTime \/ SubmitOffTime \/ ReadOnTime \/ ReadOffTime]_vars

\* The control functions beside the two processes that write the stores they
\* read: the sensor process adds readings, a settings page saves settings
MaxSamples == 2

\* The readings scd41.py stores: temperature, humidity and co2 of the SCD41,
\* moisture of the soil sensor or None. The values are multiples of 6, so the
\* mean of up to three of them is a whole number
Samples ==
  {[temperature |-> 72, humidity |-> 48, co2 |-> 396, moisture |-> 24],
   [temperature |-> 78, humidity |-> 48, co2 |-> 396, moisture |-> None]}

RECURSIVE Sum(_)
Sum(values) == IF values = <<>> THEN 0 ELSE Head(values) + Sum(Tail(values))

\* func.avg(column): the mean of the values that are not NULL, NULL (None)
\* when there is none
avg(values) ==
  LET present == SelectSeq(values, LAMBDA v : v # None) IN
  IF present = <<>> THEN None ELSE Sum(present) \div Len(present)

\* The query of get_average_readings, lines 114-121, on the rows of the window
average_row(rows) ==
  Row(avg([i \in 1..Len(rows) |-> rows[i].temperature]),
      avg([i \in 1..Len(rows) |-> rows[i].humidity]),
      avg([i \in 1..Len(rows) |-> rows[i].co2]),
      avg([i \in 1..Len(rows) |-> rows[i].moisture]))

InitStores ==
  /\ Quiet
  /\ pins = [ch \in Channels |-> LOW]
  /\ pump_start_time = None
  /\ now = 100
  /\ settings = DefaultStore
  /\ avg_readings = NoRow
  /\ StoreIdle

\* scd41.py, lines 62-69: the sensor process adds a reading, which has a
\* moisture value where the class maps that column, and commits
Ingest ==
  /\ pc = "fn"
  /\ moistureMapped
  /\ Len(readings) < MaxSamples
  /\ \E sample \in Samples : readings' = Append(readings, sample)
  /\ UNCHANGED <<pc, pins, pump_start_time, now, settings, moistureMapped, cycle, avg_readings,
                 status_before, should_be_on, writes, logged, pumpCall, fanCall, lightCall,
                 pumpDecisions, lowEveryCycle, exitVia, table, saves, settingCall, procs, web>>

\* Mutant of CallGetAverageReadings: the call deletes the oldest reading
CallGetAverageReadings_pruning ==
  /\ pc = "fn"
  /\ moistureMapped
  /\ cycle < MaxCalls
  /\ LET row == average_row(readings) IN
     avg_readings' = IF DebugLineRaises(row) THEN avg_readings ELSE row
  /\ readings' = IF readings = <<>> THEN readings ELSE Tail(readings)
  /\ cycle' = cycle + 1
  /\ UNCHANGED <<pc, pins, pump_start_time, now, settings, moistureMapped,
                 status_before, should_be_on, writes, logged, pumpCall, fanCall, lightCall,
                 pumpDecisions, lowEveryCycle, exitVia, table, saves, settingCall, procs, web>>

\* get_average_readings on the stored readings: the row of averages, which
\* the caller gets unless the debug line raises
CallGetAverageReadings ==
  /\ pc = "fn"
  /\ moistureMapped
  /\ cycle < MaxCalls
  /\ LET row == average_row(readings) IN
     avg_readings' = IF DebugLineRaises(row) THEN avg_readings ELSE row
  /\ cycle' = cycle + 1
  /\ UNCHANGED <<pc, pins, pump_start_time, now, settings, moistureMapped,
                 status_before, should_be_on, writes, logged, pumpCall, fanCall, lightCall,
                 pumpDecisions, lowEveryCycle, exitVia, table, saves, settingCall, readings,
                 procs, web>>

SpecStores ==
  InitStores /\ [][Ingest \/ SaveSetting \/ CallGetAverageReadings \/ CallLights
                      \/ CallFan \/ CallPump]_vars

\* Web processes inside save_system_setting at the same time, each a request
\* of a settings page in its own worker with its own session
MaxProcs == 2

Procs == 1..MaxProcs

\* UniqueConstraint('setting_type', 'key'): the mutant lets every INSERT pass
unique_system_setting_dropped(rows, setting_type, key) == TRUE

\* UniqueConstraint('setting_type', 'key', name='unique_system_setting'): an
\* INSERT passes when the table has no row of the pair
unique_system_setting(rows, setting_type, key) == first(rows, setting_type, key) = 0

\* The database holds an uncommitted write of a process other than p: SQLite
\* (config.py, sqlite:///app.db) lets one connection write at a time
WriteLockHeld(p) == \E q \in Procs \ {p} : procs[q].pc = "commit"

InitConcurrent ==
  /\ Quiet
  /\ pins = [ch \in Channels |-> LOW]
  /\ pump_start_time = None
  /\ now = 0
  /\ settings = DefaultStore
  /\ avg_readings = NoRow
  /\ table \in {<<>>, save_system_setting_row(<<>>, "light", "on_time", Str(HHMM(6 * 60)))}
  /\ saves = <<>>
  /\ settingCall = NoCall
  /\ readings = <<>>
  /\ procs \in [Procs -> [pc : {"lookup"}, key : UpsertKeys, value : UpsertValues,
                           setting : {0}, error : {"none"}]]
  /\ web = [pc |-> "idle", on_time |-> Absent, off_time |-> Absent, schedules |-> {}, submits |-> 0]

ConcurrentFrame ==
  UNCHANGED <<pc, pins, pump_start_time, now, settings, moistureMapped, cycle, avg_readings,
              status_before, should_be_on, writes, logged, pumpCall, fanCall, lightCall,
              pumpDecisions, lowEveryCycle, exitVia, saves, settingCall, readings, web>>

\* save_system_setting, lines 332-335: the SELECT sees the committed rows
SaveLookup ==
  /\ pc = "fn"
  /\ \E p \in Procs :
       /\ procs[p].pc = "lookup"
       /\ procs' = [procs EXCEPT ![p].setting = first(table, procs[p].key[1], procs[p].key[2]),
                                 ![p].pc = "flush"]
  /\ UNCHANGED table
  /\ ConcurrentFrame

\* save_system_setting, lines 337-349: the flush of db.session.commit() sends
\* the UPDATE of the row that was found, or the INSERT of the new row, once
\* no other process holds the write lock; the database checks an INSERT
\* against the unique constraint and rejects it with IntegrityError, which
\* nothing in save_system_setting or its callers catches
SaveFlush ==
  /\ pc = "fn"
  /\ \E p \in Procs :
       /\ procs[p].pc = "flush"
       /\ ~WriteLockHeld(p)
       /\ procs' = IF procs[p].setting # 0
                       \/ unique_system_setting(table, procs[p].key[1], procs[p].key[2])
                     THEN [procs EXCEPT ![p].pc = "commit"]
                     ELSE [procs EXCEPT ![p].pc = "failed", ![p].error = "IntegrityError"]
  /\ UNCHANGED table
  /\ ConcurrentFrame

\* The wait for the write lock ends with the busy timeout: OperationalError
\* (database is locked) out of db.session.commit()
SaveLocked ==
  /\ pc = "fn"
  /\ \E p \in Procs :
       /\ procs[p].pc = "flush"
       /\ WriteLockHeld(p)
       /\ procs' = [procs EXCEPT ![p].pc = "failed", ![p].error = "OperationalError"]
  /\ UNCHANGED table
  /\ ConcurrentFrame

\* save_system_setting, line 349: COMMIT makes the write visible and frees
\* the write lock
SaveCommit ==
  /\ pc = "fn"
  /\ \E p \in Procs :
       /\ procs[p].pc = "commit"
       /\ table' = IF procs[p].setting # 0
                     THEN [table EXCEPT ![procs[p].setting].value = str(procs[p].value)]
                     ELSE Append(table, [setting_type |-> procs[p].key[1], key |-> procs[p].key[2],
                                         value |-> str(procs[p].value)])
       /\ procs' = [procs EXCEPT ![p].pc = "done"]
  /\ ConcurrentFrame

SpecConcurrent ==
  InitConcurrent /\ [][SaveLookup \/ SaveFlush \/ SaveLocked \/ SaveCommit]_vars

(***************************************************************************)
(* Claims                                                                  *)
(***************************************************************************)

\* C1: starting with the pump OFF, with avg_moisture below moisture_min and
\* pump_duration = 120 at every cycle and a cycle every 60 s, the pump
\* decisions of cycles 1, 2, 3 are ON, ON, OFF. In general a should_pump_be_on
\* call that finds the relay ON, a recorded start and a moisture reading of any
\* value returns ON and keeps pump_start_time while current_time -
\* pump_start_time < pump_duration, and returns OFF and clears pump_start_time
\* once it is >= pump_duration.
PumpRunTiming ==
  /\ (lowEveryCycle /\ Len(pumpDecisions) >= 1 => pumpDecisions[1] = TRUE)
  /\ (lowEveryCycle /\ Len(pumpDecisions) >= 2 => pumpDecisions[2] = TRUE)
  /\ (lowEveryCycle /\ Len(pumpDecisions) >= 3 => pumpDecisions[3] = FALSE)
  /\ (pumpCall.called /\ pumpCall.running /\ pumpCall.start_time # None /\ pumpCall.moisture # None
        => IF pumpCall.current_time - pumpCall.start_time < pumpCall.pump_duration
             THEN pumpCall.ret = TRUE /\ pump_start_time = pumpCall.start_time
             ELSE pumpCall.ret = FALSE /\ pump_start_time = None)

PumpRunTimingWitness ==
  /\ lowEveryCycle
  /\ pumpDecisions = <<TRUE, TRUE, FALSE>>
  /\ pumpCall.called
  /\ pumpCall.current_time - pumpCall.start_time >= 120
  /\ pump_start_time = None

\* C2: a should_pump_be_on call that finds the pump relay ON, no recorded
\* start and a moisture reading returns OFF and leaves pump_start_time
\* undefined, whatever the moisture and the thresholds are; so does the call
\* after it on the same input.
DesyncRecovery ==
  pumpCall.called /\ pumpCall.running /\ pumpCall.start_time = None /\ pumpCall.moisture # None
    => /\ pumpCall.ret = FALSE
       /\ pump_start_time = None
       /\ GPIO_input(pins, "pump")
       /\ \A i \in 1..Len(pumpDecisions) : pumpDecisions[i] = FALSE

DesyncRecoveryWitness ==
  /\ pumpCall.called /\ pumpCall.running /\ pumpCall.start_time = None
  /\ pumpCall.moisture # None /\ pumpCall.moisture < pumpCall.moisture_min
  /\ pumpDecisions = <<FALSE, FALSE>>
  /\ pump_start_time = None

\* C3: in a cycle whose averaging window holds no sample (every average is
\* None), should_fan_be_on and should_pump_be_on both return OFF.
NoSamplesBothOff ==
  avg_readings = EmptyRow
    => /\ (fanCall.called => ~fanCall.raised /\ fanCall.ret = FALSE)
       /\ (pumpCall.called => pumpCall.ret = FALSE)

MinuteOf(s) == CHOOSE m \in 0..(24 * 60 - 1) : HHMM(m) = s
OnMinute == IF settings[<<"light", "on_time">>] = Absent THEN 6 * 60 ELSE MinuteOf(settings[<<"light", "on_time">>])
OffMinute == IF settings[<<"light", "off_time">>] = Absent THEN 20 * 60 ELSE MinuteOf(settings[<<"light", "off_time">>])

LightSchedule ==
  lightCall.called
    => /\ ~lightCall.raised
       /\ (lightCall.ret <=>
            \/ (OnMinute <= OffMinute /\ OnMinute <= lightCall.minute /\ lightCall.minute <= OffMinute)
            \/ (OnMinute > OffMinute /\ (lightCall.minute >= OnMinute \/ lightCall.minute <= OffMinute)))
       /\ (lightCall.minute \in {OnMinute, OffMinute} => lightCall.ret)

LightScheduleWitness ==
  /\ lightCall.called
  /\ OnMinute > OffMinute
  /\ lightCall.minute = OffMinute
  /\ lightCall.ret

\* C6: with a window that has samples, should_fan_be_on returns ON iff avg_temp
\* > temp_max or avg_humidity > humid_max or avg_co2 > co2_max (strictly), and
\* its trigger reasons are exactly the sub-conditions that hold; 76/75, 50/80,
\* 400/1500 gives ON with the temperature reason alone.
Threshold(setting_type, key, default) ==
  IF settings[<<setting_type, key>>] = Absent THEN default
  ELSE CHOOSE n \in 0..2000 : FloatStr(n) = settings[<<setting_type, key>>]

FanDecision ==
  fanCall.called /\ avg_readings # EmptyRow
    => LET hot == avg_readings.avg_temp > Threshold("temperature", "max", 75)
           humid == avg_readings.avg_humidity > Threshold("humidity", "max", 80)
           stale == avg_readings.avg_co2 > Threshold("co2", "max", 1500)
       IN
       /\ ~fanCall.raised
       /\ (fanCall.ret <=> (hot \/ humid \/ stale))
       /\ (("Temp" \in fanCall.trigger_reason) <=> hot)
       /\ (("Humidity" \in fanCall.trigger_reason) <=> humid)
       /\ (("CO2" \in fanCall.trigger_reason) <=> stale)
       /\ fanCall.trigger_reason \subseteq {"Temp", "Humidity", "CO2"}
       /\ (avg_readings = Row(76, 50, 400, 25) /\ settings = DefaultStore
             => fanCall.ret /\ fanCall.trigger_reason = {"Temp"})

FanDecisionWitness ==
  /\ fanCall.called
  /\ avg_readings = Row(76, 50, 400, 25)
  /\ settings = DefaultStore
  /\ fanCall.ret
  /\ fanCall.trigger_reason = {"Temp"}

\* C7: when the first control cycle begins, the three relays are driven LOW
\* and pump_start_time is None, whatever the pins were before the process
\* started.
StartupSafety ==
  cycle = 1 /\ pc = "avg" => pump_start_time = None /\ \A ch \in Channels : pins[ch] = LOW

StartupSafetyWitness ==
  cycle = 1 /\ pc = "avg" /\ pump_start_time = None /\ \A ch \in Channels : pins[ch] = LOW

\* C8: once the control loop has ended, by a termination signal or by an error
\* raised in a cycle, no relay is left ON.
ShutdownSafety ==
  pc \in {"exited", "killed"} => \A ch \in Channels : pins[ch] # HIGH

\* C9: a should_pump_be_on call without a moisture reading while
\* pump_start_time is defined returns OFF and clears pump_start_time.
MissingMoistureClears ==
  pumpCall.called /\ pumpCall.moisture = None /\ pumpCall.start_time # None
    => pumpCall.ret = FALSE /\ pump_start_time = None

PumpStartRule ==
  pumpCall.called /\ pumpCall.moisture # None /\ ~pumpCall.running
    => IF pumpCall.moisture < Threshold("moisture", "min", 30)
         THEN pumpCall.ret = TRUE /\ pump_start_time = pumpCall.current_time
         ELSE pumpCall.ret = FALSE /\ pump_start_time = pumpCall.start_time

PumpStartRuleWitness ==
  /\ pumpCall.called /\ ~pumpCall.running
  /\ pumpCall.moisture = 19 /\ Threshold("moisture", "min", 30) = 20
  /\ pumpCall.start_time = None
  /\ pumpCall.ret = TRUE
  /\ pump_start_time = pumpCall.current_time

\* C12: a cycle that finds no sample in the averaging window completes
\* normally with the fail-safe decisions: its fan decision and its pump
\* decision are taken and are OFF, and the loop does not end in that cycle.
NoSamplesCycleCompletes ==
  avg_readings = EmptyRow /\ fanCall.called
    => /\ ~fanCall.raised
       /\ should_be_on["fan"] = "OFF"
       /\ exitVia # "exception"

\* C13: when a read of the readings store or of the settings store fails during
\* a cycle, the control loop goes on (to the rest of the cycle or to its sleep)
\* instead of terminating.
StoreErrorKeepsLoopAlive ==
  [][StoreReadFails => pc' \in {"light", "fan", "pump", "sleep"}]_vars

\* C14: once an actuator write has failed inside a cycle, the failing step and
\* the steps after it write nothing, no further cycle begins, the shutdown
\* sequence has run (no relay is ON) and the process has exited.
ActuatorWriteErrorFatal ==
  exitVia = "write_error"
    => /\ pc = "exited"
       /\ \A ch \in Channels : pins[ch] # HIGH
       /\ writes["pump"] = 0
       /\ (writes["fan"] = 1 => writes["light"] = 1)
       /\ \E ch \in Channels : should_be_on[ch] = Undecided

ActuatorWriteErrorFatalWitness ==
  /\ exitVia = "write_error"
  /\ pc = "exited"
  /\ cycle = 2
  /\ writes = [ch \in Channels |-> IF ch = "light" THEN 1 ELSE 0]
  /\ fanCall.called /\ fanCall.ret
  /\ \A ch \in Channels : pins[ch] = RELEASED

\* C15: the process ends with exit status 0 after a termination signal and
\* with a non-zero exit status after an error that ended the loop, in both
\* cases with the shutdown sequence run (the pins released).
ExitStatus ==
  pc \in {"exited", "killed"}
    => /\ (exitVia \in {"sigint", "sigterm"} => exit_status = 0)
       /\ (exitVia \in {"exception", "write_error"} => exit_status # 0)
       /\ pins = GPIO_cleanup(pins)

\* C16: a termination signal is acted upon only during the sleep between cycles:
\* when the loop has ended by a signal, the light, fan and pump decisions of
\* the last cycle begun have all been taken and written.
CooperativeCancellation ==
  exitVia \in {"sigint", "sigterm"}
    => \A ch \in Channels : should_be_on[ch] # Undecided /\ writes[ch] = 1

\* C19: within one control_systems call each of the light, fan and pump
\* channels is written at most once.
SingleWritePerCycle ==
  \A ch \in Channels : writes[ch] <= 1

SingleWritePerCycleWitness ==
  /\ pc = "sleep"
  /\ cycle = 2
  /\ \A ch \in Channels : writes[ch] = 1
  /\ logged["pump"] /\ ~logged["light"]

\* C17: get_system_setting returns the default when the table has no row for
\* (setting_type, key); otherwise the stored string as a number if it is the
\* spelling of a number, else as a boolean if it is "true" or "false" in any
\* letter case, else the string itself.
NumberSpellings ==
  {<<(<<"3", "0", ".", "0">>), 30>>, <<(<<"1", "2", "0">>), 120>>, <<(<<"0">>), 0>>}
TrueSpellings == {<<"t", "r", "u", "e">>, <<"T", "r", "u", "e">>, <<"T", "R", "U", "E">>}
FalseSpellings == {<<"f", "a", "l", "s", "e">>, <<"F", "a", "l", "s", "e">>, <<"F", "A", "L", "S", "E">>}

TypedLookup ==
  settingCall.called
    => LET v == settings[settingCall.key] IN
       IF v = Absent THEN settingCall.ret = settingCall.default
       ELSE IF \E p \in NumberSpellings : p[1] = v
         THEN \E p \in NumberSpellings : p[1] = v /\ settingCall.ret = Num(p[2])
       ELSE IF v \in TrueSpellings THEN settingCall.ret = Bool(TRUE)
       ELSE IF v \in FalseSpellings THEN settingCall.ret = Bool(FALSE)
       ELSE settingCall.ret = Str(v)

TypedLookupWitness ==
  /\ settingCall.called
  /\ settingCall.key = <<"moisture", "min">>
  /\ settings[settingCall.key] = <<"F", "A", "L", "S", "E">>
  /\ settingCall.default = Num(30)
  /\ settingCall.ret = Bool(FALSE)

\* C18: after any sequence of save_system_setting calls the table holds at
\* most one row per (setting_type, key), with the string of the most recent
\* save of that pair (so a save of one pair leaves the value of every other
\* pair as it was), and get_system_setting returns the default before the
\* first save of a pair and the decoded value of its most recent save after.
LastSave(k, n) ==
  IF \E i \in 1..n : saves[i].key = k
    THEN CHOOSE i \in 1..n : saves[i].key = k /\ \A j \in (i + 1)..n : saves[j].key # k
    ELSE 0

StoredAs(v) ==
  CASE v = Num(35) -> <<"3", "5", ".", "0">>
    [] v = Str(<<"0", "6", ":", "0", "0">>) -> <<"0", "6", ":", "0", "0">>
    [] v = Bool(TRUE) -> <<"T", "r", "u", "e">>
    [] v = Str(<<"2", "0">>) -> <<"2", "0">>

ReadBack(v) ==
  CASE v = Num(35) -> Num(35)
    [] v = Str(<<"0", "6", ":", "0", "0">>) -> Str(<<"0", "6", ":", "0", "0">>)
    [] v = Bool(TRUE) -> Bool(TRUE)
    [] v = Str(<<"2", "0">>) -> Num(20)

SettingsUpsert ==
  /\ \A i, j \in 1..Len(table) :
       table[i].setting_type = table[j].setting_type /\ table[i].key = table[j].key => i = j
  /\ \A k \in SettingKeys :
       Cardinality({i \in 1..Len(table) : <<table[i].setting_type, table[i].key>> = k})
         = IF LastSave(k, Len(saves)) = 0 THEN 0 ELSE 1
  /\ \A i \in 1..Len(table) :
       LET k == <<table[i].setting_type, table[i].key>> IN
       table[i].value = StoredAs(saves[LastSave(k, Len(saves))].value)
  /\ (settingCall.called
        => LET last == LastSave(settingCall.key, settingCall.after) IN
           IF last = 0 THEN settingCall.ret = settingCall.default
           ELSE settingCall.ret = ReadBack(saves[last].value))

SettingsUpsertWitness ==
  /\ Len(saves) = 3
  /\ saves[1] = [key |-> <<"moisture", "min">>, value |-> Num(35)]
  /\ saves[2] = [key |-> <<"light", "on_time">>, value |-> Str(<<"0", "6", ":", "0", "0">>)]
  /\ saves[3] = [key |-> <<"moisture", "min">>, value |-> Str(<<"2", "0">>)]
  /\ Len(table) = 2
  /\ settingCall.called /\ settingCall.after = 3
  /\ settingCall.key = <<"moisture", "min">> /\ settingCall.ret = Num(20)

EvaluationOrderLightPumpFan ==
  /\ (pumpCall.called => lightCall.called)
  /\ (fanCall.called => pumpCall.called)

\* C22 as amended: within a cycle the light schedule is evaluated first, then
\* the fan controller, then the pump controller; nothing in the cycle writes
\* the pump channel before the pump controller has read the pump relay, and
\* the state it reads is the one the relay had before the pump write.
EvaluationOrder ==
  /\ (fanCall.called => lightCall.called)
  /\ (pumpCall.called => fanCall.called)
  /\ (InCycle => writes["pump"] = 0 /\ ~pumpCall.called)
  /\ (pc = "sleep" => pumpCall.called /\ OnOff(pumpCall.running) = status_before["pump"])

EvaluationOrderWitness ==
  /\ pc = "sleep"
  /\ cycle = 2
  /\ lightCall.called /\ fanCall.called /\ pumpCall.called
  /\ fanCall.ret
  /\ pumpCall.running
  /\ status_before["pump"] = "ON"

\* C23: when the averaging window has samples with temperature, humidity and
\* CO2 but without moisture, get_average_readings returns its row and the
\* cycle goes on to its decisions (pump OFF, fan from the three averages).
PartialAveragesComplete ==
  [][GetAverageReadings => pc' = "light"]_vars

\* C25: after startup, whenever the pump relay is ON at a cycle boundary or
\* inside a cycle, pump_start_time is defined, and no should_pump_be_on call
\* of the loop takes the desync branch.
PumpOnHasStart ==
  /\ (InRun /\ GPIO_input(pins, "pump") => pump_start_time # None)
  /\ (pumpCall.called => pumpCall.branch # "desync")

PumpOnHasStartWitness ==
  /\ pc = "avg"
  /\ cycle = 3
  /\ GPIO_input(pins, "pump")
  /\ pump_start_time # None
  /\ pumpDecisions = <<FALSE, TRUE>>

\* C28: after every control cycle that completes, the state of each relay
\* equals the decision computed for its channel in that cycle, whatever the
\* relay states were before the cycle.
ActuatorsFollowDecisions ==
  pc = "sleep" => \A ch \in Channels : OnOff(GPIO_input(pins, ch)) = should_be_on[ch]

ActuatorsFollowDecisionsWitness ==
  /\ pc = "sleep"
  /\ cycle = 2
  /\ status_before = [ch \in Channels |-> IF ch = "fan" THEN "OFF" ELSE "ON"]
  /\ should_be_on = [ch \in Channels |-> IF ch = "fan" THEN "ON" ELSE "OFF"]
  /\ pins = [ch \in Channels |-> IF ch = "fan" THEN HIGH ELSE LOW]

\* C26: a should_pump_be_on call of the loop that finds the pump running and
\* begins at least pump_duration after the start returns OFF, and the cycle
\* turns the relay OFF; so the pump decisions ON in a row, one per cycle
\* interval the relay is ON, never number more than ceil(pump_duration / 60),
\* and a pump_duration shorter than the cadence gives one interval.
TrailingOn ==
  LET n == Len(pumpDecisions) IN
  CHOOSE k \in 0..n :
    /\ \A i \in (n - k + 1)..n : pumpDecisions[i]
    /\ (k = n \/ ~pumpDecisions[n - k])

StartedPumpStops ==
  pumpCall.called
    => /\ (pumpCall.running /\ pumpCall.current_time - pumpCall.start_time >= pumpCall.pump_duration
            => /\ pumpCall.ret = FALSE
               /\ (pc = "sleep" => ~GPIO_input(pins, "pump")))
       /\ TrailingOn <= (pumpCall.pump_duration + Cadence - 1) \div Cadence
       /\ (pumpCall.pump_duration <= Cadence => TrailingOn <= 1)

StartedPumpStopsWitness ==
  /\ pc = "sleep"
  /\ pumpCall.called /\ pumpCall.running
  /\ pumpCall.pump_duration = 30
  /\ pumpCall.current_time - pumpCall.start_time >= Cadence
  /\ pumpDecisions = <<TRUE, FALSE>>
  /\ ~GPIO_input(pins, "pump")

\* C27: when the pump decision of a cycle was ON, that of the next cycle OFF
\* (the timer expired) and avg_moisture is below moisture_min in the cycle
\* after it, that cycle starts the pump again with pump_start_time set to its
\* own time: the pump is OFF for one cycle interval between the two runs.
NoCoolDown ==
  LET n == Len(pumpDecisions) IN
  pumpCall.called /\ n >= 3 /\ pumpDecisions[n - 2] /\ ~pumpDecisions[n - 1]
    /\ pumpCall.moisture < pumpCall.moisture_min
    => /\ pumpCall.branch = "start"
       /\ pumpDecisions[n]
       /\ pump_start_time = pumpCall.current_time
       /\ (pc = "sleep" => GPIO_input(pins, "pump"))

NoCoolDownWitness ==
  /\ pc = "sleep"
  /\ pumpDecisions = <<TRUE, FALSE, TRUE>>
  /\ pumpCall.branch = "start"
  /\ pump_start_time = now
  /\ GPIO_input(pins, "pump")

\* C24: on zero-padded 24-hour HH:MM strings the string comparison of
\* should_lights_be_on decides as the comparison of minutes since midnight
\* does: the two orders agree on the three times of a call, and the decision
\* equals the minute-based one.
should_light_be_on_minutes(current, on_time, off_time) ==
  IF on_time <= off_time
    THEN on_time <= current /\ current <= off_time
    ELSE current >= on_time \/ current <= off_time

StringMinuteEquivalence ==
  lightCall.called
    => /\ \A a, b \in {OnMinute, OffMinute, lightCall.minute} :
            StrLeq(HHMM(a), HHMM(b)) <=> a <= b
       /\ ~lightCall.raised
       /\ lightCall.ret = should_light_be_on_minutes(lightCall.minute, OnMinute, OffMinute)

StringMinuteEquivalenceWitness ==
  /\ lightCall.called
  /\ settings[<<"light", "on_time">>] = <<"0", "9", ":", "5", "9">>
  /\ settings[<<"light", "off_time">>] = <<"1", "0", ":", "0", "0">>
  /\ lightCall.minute = 10 * 60
  /\ lightCall.ret

\* C21: no call of get_average_readings or of a decision function inserts,
\* updates or deletes a sensor reading or a system setting: every such step
\* leaves the readings and the settings as they are, while the sensor
\* process and the settings pages change them.
StoresReadOnly ==
  [][(CallGetAverageReadings \/ CallLights \/ CallFan \/ CallPump)
       => UNCHANGED <<readings, settings, table>>]_vars

StoresReadOnlyWitness ==
  /\ Len(readings) = 2
  /\ settings[<<"moisture", "min">>] # Absent
  /\ avg_readings = average_row(readings)
  /\ avg_readings.avg_temp = 72 /\ avg_readings.avg_moisture = 24
  /\ pumpCall.called /\ pumpCall.ret

\* The rows of the table that have the pair k
RowsOf(k) == {i \in 1..Len(table) : table[i].setting_type = k[1] /\ table[i].key = k[2]}

\* C29: processes that run save_system_setting at the same time, for a pair
\* that has no row yet as for one that has, never leave two rows of one pair;
\* a process that is done, or whose INSERT the unique constraint rejected,
\* finds exactly one row of its pair, a rejected process has failed with the
\* error, and when the processes all save one pair and every one of them
\* has finished, in whatever order their steps ran, the pair has exactly one
\* row.
ConcurrentUpsertOneRow ==
  /\ \A k \in UpsertKeys : Cardinality(RowsOf(k)) <= 1
  /\ \A p \in Procs :
       /\ procs[p].pc = "done" => Cardinality(RowsOf(procs[p].key)) = 1
       /\ procs[p].error = "IntegrityError" =>
            /\ procs[p].pc = "failed"
            /\ procs[p].setting = 0
            /\ Cardinality(RowsOf(procs[p].key)) = 1
       /\ procs[p].pc = "failed" => procs[p].error # "none"
  /\ \A k \in UpsertKeys :
       (\A p \in Procs : procs[p].key = k /\ procs[p].pc \in {"done", "failed"})
         => Cardinality(RowsOf(k)) = 1

ConcurrentUpsertOneRowWitness ==
  /\ procs[1].key = <<"moisture", "min">> /\ procs[2].key = <<"moisture", "min">>
  /\ procs[1].setting = 0 /\ procs[2].setting = 0
  /\ procs[1].pc = "failed" /\ procs[1].error = "IntegrityError"
  /\ procs[2].pc = "done"
  /\ procs[1].value # procs[2].value
  /\ Cardinality(RowsOf(<<"moisture", "min">>)) = 1

====
